---- MODULE Spec2Model ----
(***************************************************************************)
(* A model of the two batch programs of the repository:                    *)
(*   generate-csv.py      the regime-driven CSV generator                  *)
(*   visualize_report.py  the CSV filter / metric deriver / renderer       *)
(*                                                                         *)
(* Numbers.  Python floats are modelled in fixed point with three decimal  *)
(* places: a ratio 2.0 is 2000, a fraction 0.10 is 100.  An accumulated    *)
(* amount of KB is a record [kb, milli] (whole KB and thousandths) because *)
(* the totals of a 16-hour run do not fit a 32-bit integer in thousandths. *)
(* Time.  A datetime is [sec, usec]; timedelta(seconds = n) adds to sec.   *)
(* Randomness.  random.seed(42) fixes the stream of draws; the stream that *)
(* the seed yields is the constant-in-time variable mt, any periodic       *)
(* sequence of draw levels of period StreamLen.  A draw level l in 0..2    *)
(* stands for random() = l/2.                                              *)
(***************************************************************************)
EXTENDS Integers, Sequences, FiniteSets, TLC

(* ------------------------------ bounds -------------------------------- *)
StreamLen == 2
MaxClock == 1
MaxCount == 4
MaxRows == 4

(* ---------------- configuration of generate-csv.py -------------------- *)
base_change_rate_kbps == 200
high_change_rate_kbps == 2048
rate_increase_hour == 4
rate_return_hour == 8
high_rate_hour == 12
high_rate_end_hour == 16
no_compression_end_hour == 14
interval_seconds == 300
base_compression_ratio == 2000
data_randomness_percent == 100
compression_randomness_percent == 150
smoothing_factor == 700

period1_duration_minutes == rate_increase_hour * 60
period2_duration_minutes == (rate_return_hour - rate_increase_hour) * 60
period3_duration_minutes == (high_rate_hour - rate_return_hour) * 60
period4a_duration_minutes == (no_compression_end_hour - high_rate_hour) * 60
period4b_duration_minutes == (high_rate_end_hour - no_compression_end_hour) * 60

period1_intervals == (period1_duration_minutes * 60) \div interval_seconds
period2_intervals == (period2_duration_minutes * 60) \div interval_seconds
period3_intervals == (period3_duration_minutes * 60) \div interval_seconds
period4a_intervals == (period4a_duration_minutes * 60) \div interval_seconds
period4b_intervals == (period4b_duration_minutes * 60) \div interval_seconds
total_intervals ==
    period1_intervals + period2_intervals + period3_intervals
        + period4a_intervals + period4b_intervals
normal_compression_intervals == total_intervals - period4a_intervals
ratios_before_period4 == period1_intervals + period2_intervals + period3_intervals

VM_NAME == "vm-1"

\* A ratio of a list carries, beside its value, its origin: the 1-based index
\* at which generate_compression_ratios produced it, 0 for the fixed 1.0 of
\* the no-compression period, -1 for the default 2.0 of generate_data_period.
Ratio(v, o) == [value |-> v, origin |-> o]
no_compression_ratio == Ratio(1000, 0)
default_compression_ratio == Ratio(2000, -1)

(* --------------------------- Python helpers --------------------------- *)
\* list[a:b] of Python, a and b 0-based, clamped to the list
Slice(s, a, b) ==
    LET lo == IF a < Len(s) THEN a ELSE Len(s)
        hi == IF b < Len(s) THEN b ELSE Len(s)
    IN  IF hi <= lo THEN << >> ELSE SubSeq(s, lo + 1, hi)

\* [x] * n
Repeat(x, n) == [k \in 1..n |-> x]

\* random.uniform(a, b) = a + (b - a) * random(), random() = l / 2
Uniform(a, b, l) == a + ((b - a) * l) \div 2

Levels == 0..2
Streams == [1..StreamLen -> Levels]
NextLevel(r) == r.stream[(r.pos % StreamLen) + 1]
Advance(r) == [r EXCEPT !.pos = @ + 1]

(* amounts of KB *)
ZeroAmt == [kb |-> 0, milli |-> 0]
AddAmt(a, d) ==
    LET m == a.milli + d.milli
    IN  [kb |-> a.kb + d.kb + (m \div 1000), milli |-> m % 1000]
LeqAmt(a, b) == a.kb < b.kb \/ (a.kb = b.kb /\ a.milli <= b.milli)
MilliToAmt(x) == [kb |-> x \div 1000, milli |-> x % 1000]

(* datetime *)
NoTime == [sec |-> -1, usec |-> 0]
AddSeconds(dt, s) == [dt EXCEPT !.sec = @ + s]

\* datetime.now(): the wall clock when the statement runs, half a second apart
ClockReading(t) == [sec |-> 35999 + ((t + 1) \div 2), usec |-> ((t + 1) % 2) * 500000]
ClockReadings == {ClockReading(t) : t \in 0..MaxClock}
NotBefore(a, b) == a.sec > b.sec \/ (a.sec = b.sec /\ a.usec >= b.usec)

\* timestamp.strftime("%b %d, %Y, %I:%M:%S %p"): the calendar date (as a day
\* number), the 12-hour clock hour, minute, second and AM/PM; the
\* microseconds are not printed
Strftime(dt) ==
    LET h == (dt.sec % 86400) \div 3600
    IN  [date |-> dt.sec \div 86400,
         I    |-> IF h % 12 = 0 THEN 12 ELSE h % 12,
         M    |-> (dt.sec % 3600) \div 60,
         S    |-> dt.sec % 60,
         p    |-> IF h < 12 THEN "AM" ELSE "PM"]

\* the digits of n in groups of three, most significant first ("1,234,567")
RECURSIVE Groups(_)
Groups(n) == IF n < 1000 THEN << n >> ELSE Append(Groups(n \div 1000), n % 1000)

\* "{:,.2f}".format(x): rounded to two decimals, thousands separated
FormatNum(a) ==
    LET c  == (a.milli + 5) \div 10
        kb == IF c = 100 THEN a.kb + 1 ELSE a.kb
    IN  [groups |-> Groups(kb), cents |-> IF c = 100 THEN 0 ELSE c]

\* pd.to_datetime(text, format="%b %d, %Y, %I:%M:%S %p") of a well-formed
\* text, as seconds
Strptime(stamp) ==
    (stamp.date * 86400)
        + (((stamp.I % 12) + (IF stamp.p = "PM" THEN 12 ELSE 0)) * 3600)
        + (stamp.M * 60) + stamp.S

\* A text where a timestamp is expected: absent (None), the empty string, a
\* text the format does not match, or a well-formed timestamp
Text(kind, sec) == [kind |-> kind, stamp |-> Strftime([sec |-> sec, usec |-> 0])]
NoText == Text("none", 0)

\* float(text.replace(',', ''))
RECURSIVE Ungroup(_)
Ungroup(g) ==
    IF Len(g) = 0 THEN 0
    ELSE (Ungroup(SubSeq(g, 1, Len(g) - 1)) * 1000) + g[Len(g)]
ParseNum(f) == [kb |-> Ungroup(f.groups), milli |-> f.cents * 10]

(* ------------------------------- state -------------------------------- *)
VARIABLES
    pc,                         \* position of the generator's main script
    run,                        \* 1 for the first run of the process, 2 for the second
    wall_clock,                 \* the latest reading of the system clock
    mt,                         \* the stream of draws that random.seed(42) yields
    rng,                        \* the state of the random module
    caller,                     \* who called generate_compression_ratios
    r_num_intervals, r_base, r_randomness, r_smoothing,  \* its arguments
    i, prev_ratio, compression_ratios,                   \* its locals
    normal_compression_ratios, all_compression_ratios,
    start_time,
    stdout, prev_stdout,        \* the CSV written by this run / by the run before
    period,                     \* call site of generate_data_period, 1..5
    f_start_time, num_intervals, change_rate_kbps,  \* generate_data_period
    period_compression_ratios, gi, total_uncompressed, total_compressed,
    period_end_time, period_uncompressed, period_compressed,
    trace,                      \* history: one record per emitted row
    v_pc,                       \* position of the visualizer's script
    file,                       \* the input file: whether it exists, its rows
    args,                       \* the parsed command line: name, start, end
    df, df_rate, df_rate_stable,
    y_limits,                   \* the limits given to set_ylim
    message,                    \* what the run printed when it ended early
    exit_code,                  \* -1 while the visualizer runs
    png_written                 \* report_visualization.png was saved

rngVars == << mt, rng >>
ratioArgs == << caller, r_num_intervals, r_base, r_randomness, r_smoothing >>
ratioVars == << ratioArgs, i, prev_ratio, compression_ratios >>
listVars == << normal_compression_ratios, all_compression_ratios >>
outVars == << stdout, prev_stdout >>
frameVars == << period, f_start_time, num_intervals, change_rate_kbps,
                period_compression_ratios, gi, total_uncompressed, total_compressed >>
retVars == << period_end_time, period_uncompressed, period_compressed >>
genVars == << pc, run, wall_clock, rngVars, ratioVars, listVars, start_time, outVars,
              frameVars, retVars, trace >>
vizVars == << v_pc, file, args, df, df_rate, df_rate_stable, y_limits, message,
              exit_code, png_written >>
vars == << genVars, vizVars >>

NoStdout == [header |-> << >>, rows |-> << >>]
Periods == 1..5

GenInit ==
    /\ pc = "start"
    /\ run = 1
    /\ wall_clock = ClockReading(0)
    /\ mt \in Streams
    /\ rng = [stream |-> mt, pos |-> 0]
    /\ caller = "main"
    /\ r_num_intervals = 0 /\ r_base = 0 /\ r_randomness = 0 /\ r_smoothing = 0
    /\ i = 0 /\ prev_ratio = 0 /\ compression_ratios = << >>
    /\ normal_compression_ratios = << >> /\ all_compression_ratios = << >>
    /\ start_time = NoTime
    /\ stdout = NoStdout /\ prev_stdout = NoStdout
    /\ period = 0 /\ f_start_time = NoTime /\ num_intervals = 0
    /\ change_rate_kbps = 0 /\ period_compression_ratios = << >> /\ gi = 0
    /\ total_uncompressed = ZeroAmt /\ total_compressed = ZeroAmt
    /\ period_end_time = [k \in Periods |-> NoTime]
    /\ period_uncompressed = [k \in Periods |-> ZeroAmt]
    /\ period_compressed = [k \in Periods |-> ZeroAmt]
    /\ trace = << >>

\* the visualizer is not running
VizIdle ==
    /\ v_pc = "idle"
    /\ file = [exists |-> FALSE, rows |-> << >>]
    /\ args = [name |-> VM_NAME, start |-> NoText, end |-> NoText]
    /\ df = << >> /\ df_rate = << >> /\ df_rate_stable = << >>
    /\ y_limits = << >>
    /\ message = "" /\ exit_code = -1 /\ png_written = FALSE

Init == GenInit /\ VizIdle

(* ------------------- generate_compression_ratios ---------------------- *)
\* variant: the lower end of the range with its sign flipped
RandomFactor_Signed(randomness_percent, l) ==
    Uniform(randomness_percent - 1000, 1000 + randomness_percent, l)

\* random.uniform(1 - randomness_percent, 1 + randomness_percent)
RandomFactor(randomness_percent, l) ==
    Uniform(1000 - randomness_percent, 1000 + randomness_percent, l)

\* variant: the blend starts from the base ratio, not from the previous ratio
SmoothedRatio_FromBase(k, prev, base, random_factor, smoothing) ==
    IF k = 0
    THEN (base * random_factor) \div 1000
    ELSE ((smoothing * base) + ((((1000 - smoothing) * base) \div 1000) * random_factor))
            \div 1000

\* the ratio of interval k (0-based) from the previous ratio and the draw
SmoothedRatio(k, prev, base, random_factor, smoothing) ==
    IF k = 0
    THEN (base * random_factor) \div 1000
    ELSE ((smoothing * prev) + ((((1000 - smoothing) * base) \div 1000) * random_factor))
            \div 1000

\* random.seed(42), and the call of generate_compression_ratios up to its loop
SeedAndCall ==
    /\ pc = "start"
    /\ rng' = [stream |-> mt, pos |-> 0]
    /\ r_num_intervals' = normal_compression_intervals
    /\ r_base' = base_compression_ratio
    /\ r_randomness' = compression_randomness_percent
    /\ r_smoothing' = smoothing_factor
    /\ i' = 0
    /\ prev_ratio' = base_compression_ratio
    /\ compression_ratios' = << >>
    /\ pc' = "gen_ratios"
    /\ UNCHANGED << caller, run, wall_clock, mt, listVars, start_time, outVars, frameVars,
                    retVars, trace >>

\* one iteration of the loop of generate_compression_ratios
GenRatioStep ==
    /\ pc = "gen_ratios"
    /\ i < r_num_intervals
    /\ LET random_factor == RandomFactor(r_randomness, NextLevel(rng))
           ratio == SmoothedRatio(i, prev_ratio, r_base, random_factor, r_smoothing)
       IN  /\ compression_ratios' = Append(compression_ratios, Ratio(ratio, i + 1))
           /\ prev_ratio' = ratio
    /\ rng' = Advance(rng)
    /\ i' = i + 1
    /\ UNCHANGED << pc, run, wall_clock, mt, ratioArgs, listVars, start_time, outVars, frameVars,
                    retVars, trace >>

\* variant: current_index is not advanced past the ratios of periods 1-3
Concatenate_Restart(normal) ==
    LET current_index == 0
    IN  Slice(normal, 0, ratios_before_period4)
            \o Repeat(no_compression_ratio, period4a_intervals)
            \o Slice(normal, current_index, Len(normal))

\* the ratios of periods 1-3, the fixed 1.0 of period 4a, the ratios of period 4b
Concatenate(normal) ==
    LET current_index == 0 + ratios_before_period4
    IN  Slice(normal, 0, ratios_before_period4)
            \o Repeat(no_compression_ratio, period4a_intervals)
            \o Slice(normal, current_index, Len(normal))

\* the return of generate_compression_ratios, the concatenation of the slices,
\* the reading of the clock and the CSV header
GenRatioReturn ==
    /\ pc = "gen_ratios"
    /\ caller = "main"
    /\ i >= r_num_intervals
    /\ normal_compression_ratios' = compression_ratios
    /\ all_compression_ratios' = Concatenate(compression_ratios)
    /\ \E now \in ClockReadings :
          /\ NotBefore(now, wall_clock)
          /\ wall_clock' = now
          /\ start_time' = now
    /\ stdout' = [header |-> << "Name", "timestamp", "compressed", "uncompressed" >>,
                  rows |-> << >>]
    /\ pc' = "period1"
    /\ UNCHANGED << run, rngVars, ratioVars, prev_stdout, frameVars, retVars, trace >>

\* generate_compression_ratios called on its own: return compression_ratios
RatiosReturn ==
    /\ pc = "gen_ratios"
    /\ caller = "direct"
    /\ i >= r_num_intervals
    /\ normal_compression_ratios' = compression_ratios
    /\ pc' = "returned"
    /\ UNCHANGED << run, wall_clock, rngVars, ratioVars, all_compression_ratios, start_time,
                    outVars, frameVars, retVars, trace >>

(* ------------------------ generate_data_period ------------------------ *)
\* the entry of generate_data_period from call site k
Call(k, start, n, rate, initial_total_uncompressed, initial_total_compressed, ratios) ==
    /\ period' = k
    /\ f_start_time' = start
    /\ num_intervals' = n
    /\ change_rate_kbps' = rate
    /\ period_compression_ratios' = ratios
    /\ total_uncompressed' = initial_total_uncompressed
    /\ total_compressed' = initial_total_compressed
    /\ gi' = 0
    /\ pc' = "data_period"
    /\ UNCHANGED << run, wall_clock, rngVars, ratioVars, listVars, start_time, outVars, retVars, trace >>

Period1 ==
    /\ pc = "period1"
    /\ Call(1, start_time, period1_intervals, base_change_rate_kbps,
            ZeroAmt, ZeroAmt,
            Slice(all_compression_ratios, 0, period1_intervals))

\* variant: the call leaves the starting totals at their defaults of 0.0
Period2_Reset ==
    /\ pc = "period2"
    /\ LET start_idx == period1_intervals
           end_idx == start_idx + period2_intervals
       IN  Call(2, period_end_time[1], period2_intervals, high_change_rate_kbps,
                ZeroAmt, ZeroAmt,
                Slice(all_compression_ratios, start_idx, end_idx))

Period2 ==
    /\ pc = "period2"
    /\ LET start_idx == period1_intervals
           end_idx == start_idx + period2_intervals
       IN  Call(2, period_end_time[1], period2_intervals, high_change_rate_kbps,
                period_uncompressed[1], period_compressed[1],
                Slice(all_compression_ratios, start_idx, end_idx))

\* variant: the two totals of period 2 are passed in each other's place
Period3_Swapped ==
    /\ pc = "period3"
    /\ LET start_idx == period1_intervals + period2_intervals
           end_idx == start_idx + period3_intervals
       IN  Call(3, period_end_time[2], period3_intervals, base_change_rate_kbps,
                period_compressed[2], period_uncompressed[2],
                Slice(all_compression_ratios, start_idx, end_idx))

Period3 ==
    /\ pc = "period3"
    /\ LET start_idx == period1_intervals + period2_intervals
           end_idx == start_idx + period3_intervals
       IN  Call(3, period_end_time[2], period3_intervals, base_change_rate_kbps,
                period_uncompressed[2], period_compressed[2],
                Slice(all_compression_ratios, start_idx, end_idx))

Period4a ==
    /\ pc = "period4a"
    /\ LET start_idx == period1_intervals + period2_intervals + period3_intervals
           end_idx == start_idx + period4a_intervals
       IN  Call(4, period_end_time[3], period4a_intervals, high_change_rate_kbps,
                period_uncompressed[3], period_compressed[3],
                Slice(all_compression_ratios, start_idx, end_idx))

Period4b ==
    /\ pc = "period4b"
    /\ LET start_idx == period1_intervals + period2_intervals + period3_intervals
                            + period4a_intervals
           end_idx == start_idx + period4b_intervals
       IN  Call(5, period_end_time[4], period4b_intervals, base_change_rate_kbps,
                period_uncompressed[4], period_compressed[4],
                Slice(all_compression_ratios, start_idx, end_idx))

\* base_uncompressed * (1 + uncompressed_noise), in thousandths of a KB
UncompressedThisInterval(rate, randomness_percent, l) ==
    LET base_uncompressed == rate * interval_seconds
        uncompressed_noise == Uniform(0 - randomness_percent, randomness_percent, l)
    IN  base_uncompressed * (1000 + uncompressed_noise)

\* uncompressed_this_interval / compression_ratio, in thousandths of a KB
CompressedThisInterval(uncompressed_this_interval, compression_ratio) ==
    ((uncompressed_this_interval \div compression_ratio) * 1000)
        + (((uncompressed_this_interval % compression_ratio) * 1000) \div compression_ratio)

\* compression_ratios[i] if compression_ratios else 2.0; the value 0 stands
\* for the IndexError of a list shorter than the period
RatioAt(ratios, k) ==
    IF Len(ratios) = 0 THEN default_compression_ratio
    ELSE IF k < Len(ratios) THEN ratios[k + 1] ELSE Ratio(0, -1)

\* one iteration of the loop of generate_data_period: one row
DataPeriodStep ==
    /\ pc = "data_period"
    /\ gi < num_intervals
    /\ LET timestamp == AddSeconds(f_start_time, gi * interval_seconds)
           compression_ratio == RatioAt(period_compression_ratios, gi)
       IN  IF compression_ratio.value = 0
           THEN \* IndexError, ZeroDivisionError: the run ends with a traceback
                /\ pc' = "crashed"
                /\ UNCHANGED << rng, gi, total_uncompressed, total_compressed,
                                stdout, trace >>
           ELSE LET u == UncompressedThisInterval(change_rate_kbps,
                             data_randomness_percent, NextLevel(rng))
                    c == CompressedThisInterval(u, compression_ratio.value)
                    tu == AddAmt(total_uncompressed, MilliToAmt(u))
                    tc == AddAmt(total_compressed, MilliToAmt(c))
                IN  /\ total_uncompressed' = tu
                    /\ total_compressed' = tc
                    /\ stdout' = [stdout EXCEPT !.rows = Append(@,
                           [Name |-> VM_NAME,
                            timestamp |-> Strftime(timestamp),
                            compressed |-> FormatNum(tc),
                            uncompressed |-> FormatNum(tu)])]
                    /\ trace' = Append(trace,
                           [period |-> period, i |-> gi, rate |-> change_rate_kbps,
                            ratio |-> compression_ratio, time |-> timestamp,
                            du |-> u, dc |-> c, tu |-> tu, tc |-> tc])
                    /\ rng' = Advance(rng)
                    /\ gi' = gi + 1
                    /\ pc' = pc
    /\ UNCHANGED << run, wall_clock, mt, ratioVars, listVars, start_time, prev_stdout,
                    period, f_start_time, num_intervals, change_rate_kbps,
                    period_compression_ratios, retVars >>

\* variant: the end time is the timestamp of the last row
EndTime_OffByOne(start, n) == AddSeconds(start, (n - 1) * interval_seconds)

\* end_time = start_time + timedelta(seconds=num_intervals * interval_seconds)
EndTime(start, n) == AddSeconds(start, n * interval_seconds)

\* where the main script continues after call site k
AfterPeriod(k) ==
    CASE k = 1 -> "period2"
      [] k = 2 -> "period3"
      [] k = 3 -> "period4a"
      [] k = 4 -> "period4b"
      [] OTHER -> "stats"

\* return end_time, total_uncompressed, total_compressed, and the assignment
\* of the tuple at the call site (the last call drops it)
DataPeriodReturn ==
    /\ pc = "data_period"
    /\ gi >= num_intervals
    /\ LET end_time == EndTime(f_start_time, num_intervals)
       IN  IF period = 5
           THEN UNCHANGED retVars
           ELSE /\ period_end_time' = [period_end_time EXCEPT ![period] = end_time]
                /\ period_uncompressed' =
                       [period_uncompressed EXCEPT ![period] = total_uncompressed]
                /\ period_compressed' =
                       [period_compressed EXCEPT ![period] = total_compressed]
    /\ pc' = AfterPeriod(period)
    /\ UNCHANGED << run, wall_clock, rngVars, ratioVars, listVars, start_time, outVars,
                    frameVars, trace >>

\* the statistics printed to stderr; the process ends
Stats ==
    /\ pc = "stats"
    /\ pc' = "done"
    /\ UNCHANGED << run, wall_clock, rngVars, ratioVars, listVars, start_time, outVars,
                    frameVars, retVars, trace >>

\* the script is run a second time: a new process, the same seed
Rerun ==
    /\ pc = "done"
    /\ run = 1
    /\ run' = 2
    /\ prev_stdout' = stdout
    /\ pc' = "start"
    /\ rng' = [stream |-> mt, pos |-> 0]
    /\ r_num_intervals' = 0 /\ r_base' = 0 /\ r_randomness' = 0 /\ r_smoothing' = 0
    /\ i' = 0 /\ prev_ratio' = 0 /\ compression_ratios' = << >>
    /\ normal_compression_ratios' = << >> /\ all_compression_ratios' = << >>
    /\ start_time' = NoTime
    /\ stdout' = NoStdout
    /\ period' = 0 /\ f_start_time' = NoTime /\ num_intervals' = 0
    /\ change_rate_kbps' = 0 /\ period_compression_ratios' = << >> /\ gi' = 0
    /\ total_uncompressed' = ZeroAmt /\ total_compressed' = ZeroAmt
    /\ period_end_time' = [k \in Periods |-> NoTime]
    /\ period_uncompressed' = [k \in Periods |-> ZeroAmt]
    /\ period_compressed' = [k \in Periods |-> ZeroAmt]
    /\ trace' = << >>
    /\ UNCHANGED << mt, caller, wall_clock >>

(* ========================= visualize_report.py ========================= *)
skip_initial == 2
padding_factor == 200

VizNames == {VM_NAME, "vm-2"}

\* floats of the derived columns: a number in thousandths, NaN, inf or -inf
Num(v) == [k |-> "num", v |-> v]
NaN == [k |-> "nan", v |-> 0]
Inf == [k |-> "inf", v |-> 0]
NegInf == [k |-> "ninf", v |-> 0]
IsNaN(x) == x.k = "nan"
IsFinite(x) == x.k = "num"
\* x < y of two floats, false when either is NaN
FloatLt(x, y) ==
    /\ ~IsNaN(x) /\ ~IsNaN(y)
    /\ \/ x.k = "ninf" /\ y.k # "ninf"
       \/ x.k = "num" /\ y.k = "inf"
       \/ x.k = "num" /\ y.k = "num" /\ x.v < y.v
\* a / b of numpy: no exception on a zero divisor
FloatDiv(a, b) ==
    IF IsNaN(a) \/ IsNaN(b) THEN NaN
    ELSE IF ~IsFinite(a) THEN (IF IsFinite(b) THEN a ELSE NaN)
    ELSE IF ~IsFinite(b) THEN Num(0)
    ELSE IF b.v = 0
         THEN (IF a.v = 0 THEN NaN ELSE IF a.v > 0 THEN Inf ELSE NegInf)
         ELSE Num((a.v * 1000) \div b.v)
\* x * f for a positive factor f in thousandths
FloatScale(x, f) == IF IsFinite(x) THEN Num((x.v * f) \div 1000) ELSE x
\* max(0, x) of Python: x when x > 0, else 0 (so 0 for NaN)
PyMax0(x) == IF FloatLt(Num(0), x) THEN x ELSE Num(0)
\* Series.min() and Series.max() of a column without NaN; NaN when empty
SeriesMin(s) ==
    IF Len(s) = 0 THEN NaN
    ELSE s[CHOOSE a \in 1..Len(s) : \A b \in 1..Len(s) : ~FloatLt(s[b], s[a])]
SeriesMax(s) ==
    IF Len(s) = 0 THEN NaN
    ELSE s[CHOOSE a \in 1..Len(s) : \A b \in 1..Len(s) : ~FloatLt(s[a], s[b])]

\* the visualizer ends: exit(code), or the end of the script
Exit(code, msg) ==
    /\ v_pc' = "exit"
    /\ exit_code' = code
    /\ message' = msg

\* lines 26-34: pd.read_csv, exit(1) on FileNotFoundError
ReadCsv ==
    /\ v_pc = "read"
    /\ IF ~file.exists
       THEN Exit(1, "file not found") /\ UNCHANGED df
       ELSE /\ df' = file.rows
            /\ v_pc' = "filter_name"
            /\ UNCHANGED << exit_code, message >>
    /\ UNCHANGED << file, args, df_rate, df_rate_stable, y_limits, png_written >>

\* df[df['Name'] == args.name]
ByName(rows, name) == SelectSeq(rows, LAMBDA r : r.Name = name)

\* lines 36-41
FilterName ==
    /\ v_pc = "filter_name"
    /\ df' = ByName(df, args.name)
    /\ IF Len(df') = 0
       THEN Exit(1, "no data for name")
       ELSE v_pc' = "to_datetime" /\ UNCHANGED << exit_code, message >>
    /\ UNCHANGED << file, args, df_rate, df_rate_stable, y_limits, png_written >>

\* line 44: the timestamp column becomes datetimes; a text the format does
\* not match raises ValueError, which nothing catches
ToDatetime ==
    /\ v_pc = "to_datetime"
    /\ IF \E j \in 1..Len(df) : df[j].timestamp.kind # "stamp"
       THEN Exit(1, "traceback") /\ UNCHANGED df
       ELSE /\ df' = [j \in 1..Len(df) |->
                         [df[j] EXCEPT !.timestamp = Strptime(df[j].timestamp.stamp)]]
            /\ v_pc' = "filter_start"
            /\ UNCHANGED << exit_code, message >>
    /\ UNCHANGED << file, args, df_rate, df_rate_stable, y_limits, png_written >>

\* "if args.start:" and "if args.end:": None and the empty string are false
Given(text) == text.kind # "none" /\ text.kind # "empty"
\* variant: a text the format does not match is coerced, not refused
Unparsable_Lenient(text) == FALSE
\* pd.to_datetime(text, format=...) raises ValueError
Unparsable(text) == text.kind # "stamp"
\* variant: the start bound is exclusive
FromStart_Exclusive(rows, start) == SelectSeq(rows, LAMBDA r : r.timestamp > start)
\* df[df['timestamp'] >= start_time] and df[df['timestamp'] <= end_time]
FromStart(rows, start) == SelectSeq(rows, LAMBDA r : r.timestamp >= start)
UntilEnd(rows, end) == SelectSeq(rows, LAMBDA r : r.timestamp <= end)

\* lines 46-54
FilterStart ==
    /\ v_pc = "filter_start"
    /\ IF ~Given(args.start)
       THEN v_pc' = "filter_end" /\ UNCHANGED << df, exit_code, message >>
       ELSE IF Unparsable(args.start)
       THEN Exit(1, "error parsing start") /\ UNCHANGED df
       ELSE /\ df' = FromStart(df, Strptime(args.start.stamp))
            /\ v_pc' = "filter_end"
            /\ UNCHANGED << exit_code, message >>
    /\ UNCHANGED << file, args, df_rate, df_rate_stable, y_limits, png_written >>

\* lines 56-63
FilterEnd ==
    /\ v_pc = "filter_end"
    /\ IF ~Given(args.end)
       THEN v_pc' = "check_range" /\ UNCHANGED << df, exit_code, message >>
       ELSE IF Unparsable(args.end)
       THEN Exit(1, "error parsing end") /\ UNCHANGED df
       ELSE /\ df' = UntilEnd(df, Strptime(args.end.stamp))
            /\ v_pc' = "check_range"
            /\ UNCHANGED << exit_code, message >>
    /\ UNCHANGED << file, args, df_rate, df_rate_stable, y_limits, png_written >>

\* lines 65-67
CheckRange ==
    /\ v_pc = "check_range"
    /\ IF Len(df) = 0
       THEN Exit(1, "no data in range")
       ELSE v_pc' = "derive" /\ UNCHANGED << exit_code, message >>
    /\ UNCHANGED << file, args, df, df_rate, df_rate_stable, y_limits, png_written >>

\* the amount of a numeric column in thousandths of a KB
ToMilli(a) == (a.kb * 1000) + a.milli
\* Series.diff() / seconds * 60 at row j (1-based) of rows with numeric columns
RateAt(rows, col, j) ==
    IF j = 1 THEN NaN
    ELSE LET d == rows[j][col] - rows[j - 1][col]
             seconds == rows[j].timestamp - rows[j - 1].timestamp
         IN  IF seconds = 0
             THEN (IF d = 0 THEN NaN ELSE IF d > 0 THEN Inf ELSE NegInf)
             ELSE Num((d * 60) \div seconds)
\* lines 69-76: the numeric columns and the three derived columns
Derived(rows) ==
    LET numeric == [j \in 1..Len(rows) |->
                       [Name |-> rows[j].Name, timestamp |-> rows[j].timestamp,
                        compressed |-> ToMilli(ParseNum(rows[j].compressed)),
                        uncompressed |-> ToMilli(ParseNum(rows[j].uncompressed))]]
    IN  [j \in 1..Len(rows) |->
            LET u == RateAt(numeric, "uncompressed", j)
                c == RateAt(numeric, "compressed", j)
            IN  [Name |-> numeric[j].Name, timestamp |-> numeric[j].timestamp,
                 compressed |-> numeric[j].compressed,
                 uncompressed |-> numeric[j].uncompressed,
                 uncompressed_rate |-> u, compressed_rate |-> c,
                 compression_ratio |-> FloatDiv(c, u)]]
\* df.dropna()
DropNa(rows) ==
    SelectSeq(rows, LAMBDA r : /\ ~IsNaN(r.uncompressed_rate)
                               /\ ~IsNaN(r.compressed_rate)
                               /\ ~IsNaN(r.compression_ratio))

\* lines 69-92
Derive ==
    /\ v_pc = "derive"
    /\ df' = Derived(df)
    /\ df_rate' = DropNa(df')
    /\ df_rate_stable' = Slice(df_rate', skip_initial, Len(df_rate'))
    /\ v_pc' = "render"
    /\ UNCHANGED << file, args, y_limits, message, exit_code, png_written >>

\* lines 131-138: (y_min, y_max) of the ratio chart
RatioLimits(stable) ==
    LET ratios == [j \in 1..Len(stable) |-> stable[j].compression_ratio]
        ratio_min == PyMax0(SeriesMin(ratios))
        ratio_max == SeriesMax(ratios)
    IN  << PyMax0(FloatScale(ratio_min, 1000 - padding_factor)),
           FloatScale(ratio_max, 1000 + padding_factor) >>

\* lines 94-165: the charts; set_ylim raises ValueError on a NaN or infinite
\* limit, which nothing catches; otherwise the figure is saved
Render ==
    /\ v_pc = "render"
    /\ y_limits' = RatioLimits(df_rate_stable)
    /\ IF IsFinite(y_limits'[1]) /\ IsFinite(y_limits'[2])
       THEN png_written' = TRUE /\ Exit(0, "")
       ELSE UNCHANGED png_written /\ Exit(1, "traceback")
    /\ UNCHANGED << file, args, df, df_rate, df_rate_stable >>

(* the input files and command lines of the visualizer *)
\* the timestamp of row j of an input file: five minutes apart, across noon
FileTime(j) == 42900 + ((j - 1) * interval_seconds)
\* the accumulated amounts of row j: a row either adds nothing or adds
\* 3000.5 KB uncompressed and (1000 + 250 j).25 KB compressed
RECURSIVE FileTotals(_, _)
FileTotals(flat, j) ==
    IF j = 0 THEN [u |-> ZeroAmt, c |-> ZeroAmt]
    ELSE LET before == FileTotals(flat, j - 1)
         IN  IF flat[j] THEN before
             ELSE [u |-> AddAmt(before.u, [kb |-> 3000, milli |-> 500]),
                   c |-> AddAmt(before.c, [kb |-> 1000 + (250 * j), milli |-> 250])]
FileRows(names, flat) ==
    [j \in 1..Len(names) |->
        [Name |-> names[j],
         timestamp |-> Text("stamp", FileTime(j)),
         compressed |-> FormatNum(FileTotals(flat, j).c),
         uncompressed |-> FormatNum(FileTotals(flat, j).u)]]
Files ==
    {[exists |-> FALSE, rows |-> << >>]} \cup
    UNION {{[exists |-> TRUE, rows |-> FileRows(names, flat)] :
                names \in [1..n -> VizNames], flat \in [1..n -> BOOLEAN]} :
           n \in 0..MaxRows}
ArgTexts ==
    {NoText, Text("empty", 0), Text("malformed", 0)} \cup
    {Text("stamp", t) : t \in {FileTime(2), FileTime(2) + 1, FileTime(3)}}
CommandLines == [name : VizNames, start : ArgTexts, end : ArgTexts]

\* the generator is not running
GenIdle ==
    /\ pc = "idle"
    /\ run = 1
    /\ wall_clock = ClockReading(0)
    /\ mt = [k \in 1..StreamLen |-> 0]
    /\ rng = [stream |-> mt, pos |-> 0]
    /\ caller = "main"
    /\ r_num_intervals = 0 /\ r_base = 0 /\ r_randomness = 0 /\ r_smoothing = 0
    /\ i = 0 /\ prev_ratio = 0 /\ compression_ratios = << >>
    /\ normal_compression_ratios = << >> /\ all_compression_ratios = << >>
    /\ start_time = NoTime
    /\ stdout = NoStdout /\ prev_stdout = NoStdout
    /\ period = 0 /\ f_start_time = NoTime /\ num_intervals = 0
    /\ change_rate_kbps = 0 /\ period_compression_ratios = << >> /\ gi = 0
    /\ total_uncompressed = ZeroAmt /\ total_compressed = ZeroAmt
    /\ period_end_time = [k \in Periods |-> NoTime]
    /\ period_uncompressed = [k \in Periods |-> ZeroAmt]
    /\ period_compressed = [k \in Periods |-> ZeroAmt]
    /\ trace = << >>

VizInit ==
    /\ GenIdle
    /\ v_pc = "read"
    /\ file \in Files
    /\ args \in CommandLines
    /\ df = << >> /\ df_rate = << >> /\ df_rate_stable = << >>
    /\ y_limits = << >>
    /\ message = "" /\ exit_code = -1 /\ png_written = FALSE

VizNext ==
    \/ ReadCsv /\ UNCHANGED genVars
    \/ FilterName /\ UNCHANGED genVars
    \/ ToDatetime /\ UNCHANGED genVars
    \/ FilterStart /\ UNCHANGED genVars
    \/ FilterEnd /\ UNCHANGED genVars
    \/ CheckRange /\ UNCHANGED genVars
    \/ Derive /\ UNCHANGED genVars
    \/ Render /\ UNCHANGED genVars

SpecViz == VizInit /\ [][VizNext]_vars

(* --------------------------- specifications --------------------------- *)
\* the generator, run twice
Next ==
    \/ SeedAndCall /\ UNCHANGED vizVars
    \/ GenRatioStep /\ UNCHANGED vizVars
    \/ GenRatioReturn /\ UNCHANGED vizVars
    \/ Period1 /\ UNCHANGED vizVars
    \/ Period2 /\ UNCHANGED vizVars
    \/ Period3 /\ UNCHANGED vizVars
    \/ Period4a /\ UNCHANGED vizVars
    \/ Period4b /\ UNCHANGED vizVars
    \/ DataPeriodStep /\ UNCHANGED vizVars
    \/ DataPeriodReturn /\ UNCHANGED vizVars
    \/ Stats /\ UNCHANGED vizVars
    \/ Rerun /\ UNCHANGED vizVars

Spec == Init /\ [][Next]_vars

\* generate_compression_ratios alone, on bounded arguments
RatiosInit ==
    /\ pc = "gen_ratios"
    /\ run = 1
    /\ wall_clock = ClockReading(0)
    /\ mt \in Streams
    /\ rng = [stream |-> mt, pos |-> 0]
    /\ caller = "direct"
    /\ r_num_intervals \in 0..MaxCount
    /\ r_base \in {1000, 2000, 3500}
    /\ r_randomness \in {0, 150, 900}
    /\ r_smoothing \in {0, 700, 1000}
    /\ i = 0 /\ prev_ratio = r_base /\ compression_ratios = << >>
    /\ normal_compression_ratios = << >> /\ all_compression_ratios = << >>
    /\ start_time = NoTime
    /\ stdout = NoStdout /\ prev_stdout = NoStdout
    /\ period = 0 /\ f_start_time = NoTime /\ num_intervals = 0
    /\ change_rate_kbps = 0 /\ period_compression_ratios = << >> /\ gi = 0
    /\ total_uncompressed = ZeroAmt /\ total_compressed = ZeroAmt
    /\ period_end_time = [k \in Periods |-> NoTime]
    /\ period_uncompressed = [k \in Periods |-> ZeroAmt]
    /\ period_compressed = [k \in Periods |-> ZeroAmt]
    /\ trace = << >>
    /\ VizIdle

RatiosNext ==
    \/ GenRatioStep /\ UNCHANGED vizVars
    \/ RatiosReturn /\ UNCHANGED vizVars

SpecRatios == RatiosInit /\ [][RatiosNext]_vars

(* =============================== claims =============================== *)
Rows == stdout.rows

\* C1: across the whole run, the accumulated compressed and the accumulated
\* uncompressed value of every emitted row of 'vm-1' are each greater than or
\* equal to those of the row emitted before it, as printed and as computed.
C1_NonDecreasing ==
    /\ \A j \in 1..(Len(Rows) - 1) :
          (Rows[j].Name = VM_NAME /\ Rows[j + 1].Name = VM_NAME) =>
             /\ LeqAmt(ParseNum(Rows[j].compressed), ParseNum(Rows[j + 1].compressed))
             /\ LeqAmt(ParseNum(Rows[j].uncompressed), ParseNum(Rows[j + 1].uncompressed))
    /\ \A j \in 1..(Len(trace) - 1) :
          /\ LeqAmt(trace[j].tc, trace[j + 1].tc)
          /\ LeqAmt(trace[j].tu, trace[j + 1].tu)

\* a finished run whose rows come from all five regimes
C1_Witness ==
    /\ pc = "done"
    /\ Len(Rows) = total_intervals
    /\ {trace[j].period : j \in 1..Len(trace)} = Periods
    /\ \E j \in 1..(Len(Rows) - 1) : Rows[j].compressed # Rows[j + 1].compressed

\* C2: at each regime boundary the starting totals of regime N+1 are the final
\* totals of regime N, uncompressed to uncompressed and compressed to
\* compressed, no regime is skipped, and every row differs from the row before
\* it, also across a boundary, by exactly its own interval's delta.
C2_Chaining ==
    /\ (pc = "data_period" /\ period >= 2 /\ gi = 0) =>
          /\ total_uncompressed = period_uncompressed[period - 1]
          /\ total_compressed = period_compressed[period - 1]
          /\ Len(trace) > 0
          /\ trace[Len(trace)].period = period - 1
          /\ trace[Len(trace)].tu = total_uncompressed
          /\ trace[Len(trace)].tc = total_compressed
    /\ \A j \in 1..(Len(trace) - 1) :
          /\ trace[j + 1].period \in {trace[j].period, trace[j].period + 1}
          /\ trace[j + 1].tu = AddAmt(trace[j].tu, MilliToAmt(trace[j + 1].du))
          /\ trace[j + 1].tc = AddAmt(trace[j].tc, MilliToAmt(trace[j + 1].dc))

\* the first row of the fifth regime has been emitted: four boundaries crossed
C2_Witness ==
    /\ pc = "data_period" /\ period = 5 /\ gi = 1
    /\ trace[Len(trace)].period = 5
    /\ trace[Len(trace) - 1].period = 4
    /\ period_uncompressed[4] # period_compressed[4]

\* C3: two runs with the same seed and the same configuration print the same
\* CSV, byte for byte, the timestamp column included.
C3_SameBytes == (run = 2 /\ pc = "done") => stdout = prev_stdout

\* C4: hours 0-4 run at the base rate, hours 4-8 at the elevated rate, hours
\* 8-12 at the base rate, hours 12-14 at the elevated rate with no
\* compression, hours 14-16 at the elevated rate with normal compression.
C4_Schedule ==
    \A j \in 1..Len(trace) :
        LET hour == (trace[j].time.sec - start_time.sec) \div 3600
        IN  /\ trace[j].rate =
                  (IF hour < 4 THEN base_change_rate_kbps
                   ELSE IF hour < 8 THEN high_change_rate_kbps
                   ELSE IF hour < 12 THEN base_change_rate_kbps
                   ELSE high_change_rate_kbps)
            /\ (trace[j].ratio = no_compression_ratio) <=> (hour \in {12, 13})

\* C5: every compression ratio of every list of the run, and every ratio an
\* interval divides by, is strictly positive; no interval fails on its
\* division and every compressed delta is positive.
C5_PositiveRatios ==
    /\ \A k \in 1..Len(compression_ratios) : compression_ratios[k].value > 0
    /\ \A k \in 1..Len(normal_compression_ratios) : normal_compression_ratios[k].value > 0
    /\ \A k \in 1..Len(all_compression_ratios) : all_compression_ratios[k].value > 0
    /\ \A k \in 1..Len(period_compression_ratios) : period_compression_ratios[k].value > 0
    /\ \A j \in 1..Len(trace) : trace[j].ratio.value > 0 /\ trace[j].dc > 0
    /\ pc # "crashed"

\* all 192 intervals have divided by their ratio
C5_Witness ==
    /\ pc = "stats"
    /\ Len(all_compression_ratios) = 192
    /\ Len(trace) = 192
    /\ \E j \in 1..Len(trace) : trace[j].ratio.value < base_compression_ratio

\* C7: generate_compression_ratios(count, base, p, alpha) returns exactly count
\* ratios, ratio[0] = base * u0 and ratio[k] = alpha * ratio[k-1] +
\* (1 - alpha) * base * uk for k > 0, uk being the k-th draw of the stream,
\* within [1 - p, 1 + p].
C7_Draw(k) == (1000 - r_randomness) + ((2 * r_randomness * mt[((k - 1) % StreamLen) + 1]) \div 2)
C7_Recurrence ==
    /\ Len(compression_ratios) = i
    /\ i <= r_num_intervals
    /\ rng.pos = i
    /\ pc = "returned" =>
          /\ normal_compression_ratios = compression_ratios
          /\ Len(normal_compression_ratios) = r_num_intervals
    /\ \A k \in 1..Len(compression_ratios) :
          /\ 1000 - r_randomness <= C7_Draw(k) /\ C7_Draw(k) <= 1000 + r_randomness
          /\ compression_ratios[k].value =
                (IF k = 1
                 THEN (r_base * C7_Draw(k)) \div 1000
                 ELSE ((r_smoothing * compression_ratios[k - 1].value)
                          + ((((1000 - r_smoothing) * r_base) \div 1000) * C7_Draw(k)))
                      \div 1000)

\* a returned list of at least three ratios in which the smoothing shows
C7_Witness ==
    /\ pc = "returned"
    /\ Len(normal_compression_ratios) >= 3
    /\ r_smoothing = 700
    /\ normal_compression_ratios[2].value # normal_compression_ratios[1].value
    /\ normal_compression_ratios[3].value # normal_compression_ratios[2].value

\* C8: the concatenated list has one entry per interval (192); the intervals
\* of the no-compression regime (rows 145-168) use the fixed 1.0 and no other
\* interval does; the 168 smoothed ratios are used in generation order, each
\* by exactly one interval; each regime gets a slice as long as its period.
C8_Alignment ==
    /\ pc \notin {"start", "gen_ratios"} =>
          /\ Len(normal_compression_ratios) = 168
          /\ Len(all_compression_ratios) = 192
    /\ pc = "data_period" => Len(period_compression_ratios) = num_intervals
    /\ \A j \in 1..Len(trace) :
          /\ (trace[j].period = 4) <=> (j \in 145..168)
          /\ IF trace[j].period = 4
             THEN trace[j].ratio = Ratio(1000, 0)
             ELSE /\ trace[j].ratio.origin = (IF j <= 144 THEN j ELSE j - 24)
                  /\ trace[j].ratio = normal_compression_ratios[trace[j].ratio.origin]

\* the last interval has used the last smoothed ratio
C8_Witness ==
    /\ pc = "done"
    /\ Len(trace) = 192
    /\ trace[145].ratio.origin = 0
    /\ trace[192].ratio.origin = 168
    /\ trace[192].ratio.value # trace[191].ratio.value

\* C10: a finished run has emitted exactly 192 rows; the timestamp of each row
\* is exactly 300 seconds after that of the row before it, also across every
\* regime boundary; the first row carries the start time and the last row the
\* start time plus 16 hours minus one interval.
C10_Timeline ==
    /\ \A j \in 1..(Len(Rows) - 1) :
          Strptime(Rows[j + 1].timestamp) = Strptime(Rows[j].timestamp) + 300
    /\ Len(Rows) >= 1 => Rows[1].timestamp = Strftime(start_time)
    /\ Len(Rows) <= 192
    /\ pc \in {"stats", "done"} =>
          /\ Len(Rows) = 192
          /\ Rows[192].timestamp = Strftime(AddSeconds(start_time, (16 * 3600) - 300))

\* a finished run that started half a second into a second and ran past noon
\* and past midnight
C10_Witness ==
    /\ pc = "done"
    /\ Len(Rows) = 192
    /\ start_time.usec # 0
    /\ Rows[1].timestamp.p = "AM"
    /\ Rows[192].timestamp.date = Rows[1].timestamp.date + 1
    /\ trace[48].period = 1 /\ trace[49].period = 2

(* the visualizer *)
\* the rows of the file that carry the name and lie within the bounds that
\* parse, by the seconds their timestamps denote
C_InBounds(r) ==
    /\ r.Name = args.name
    /\ args.start.kind = "stamp" =>
          Strptime(r.timestamp.stamp) >= Strptime(args.start.stamp)
    /\ args.end.kind = "stamp" =>
          Strptime(r.timestamp.stamp) <= Strptime(args.end.stamp)
C_Expected == SelectSeq(file.rows, C_InBounds)
C_NameRows == SelectSeq(file.rows, LAMBDA r : r.Name = args.name)
C_Refused == exit_code = 1 /\ ~png_written /\ message # "traceback"

\* C6 as stated: exit code 1 and no image when the file is missing, the name
\* leaves no row, a --start or --end argument (any text given on the command
\* line, the empty text too) does not parse, or the time filter leaves no row.
C6_AsStated ==
    v_pc = "exit" =>
        /\ ~file.exists => (exit_code = 1 /\ ~png_written)
        /\ (file.exists /\ Len(C_NameRows) = 0) => C_Refused
        /\ (args.start.kind \in {"empty", "malformed"}
                \/ args.end.kind \in {"empty", "malformed"}) =>
              (exit_code = 1 /\ ~png_written)
        /\ (file.exists /\ Len(C_NameRows) > 0 /\ Len(C_Expected) = 0) =>
              (exit_code = 1 /\ ~png_written)

\* C6: the visualizer ends with exit code 1, by a handled error and without
\* the image, when the file is missing, the name leaves no row, a non-empty
\* --start or --end does not parse, or the name leaves rows and the time
\* filter leaves none; an empty --start or --end counts as not given.
C6_ErrorExits ==
    v_pc = "exit" =>
        /\ ~file.exists => (C_Refused /\ message = "file not found")
        /\ (file.exists /\ Len(C_NameRows) = 0) =>
              (C_Refused /\ message = "no data for name")
        /\ (args.start.kind = "malformed" \/ args.end.kind = "malformed") => C_Refused
        /\ (/\ file.exists /\ Len(C_NameRows) > 0
            /\ args.start.kind # "malformed" /\ args.end.kind # "malformed"
            /\ Len(C_Expected) = 0) =>
              (C_Refused /\ message = "no data in range")

\* a run that a malformed --end stopped although the name and the start bound
\* left rows
C6_Witness ==
    /\ v_pc = "exit"
    /\ exit_code = 1 /\ ~png_written
    /\ message = "error parsing end"
    /\ args.start.kind = "stamp"
    /\ Len(df) > 0

\* C9: the rows that reach the metric derivation are exactly the rows of the
\* file whose Name equals --name and whose timestamp lies within the given
\* bounds, both bounds inclusive, in the order of the file.
C_Key(rows) == [j \in 1..Len(rows) |-> << rows[j].Name, rows[j].timestamp >>]
C_ExpectedKey ==
    [j \in 1..Len(C_Expected) |->
        << C_Expected[j].Name, Strptime(C_Expected[j].timestamp.stamp) >>]
C9_ExactFilter ==
    (v_pc \in {"derive", "render"} \/ (v_pc = "exit" /\ message \in {"", "traceback"})) =>
        /\ C_Key(df) = C_ExpectedKey
        /\ Len(df) > 0

\* both bounds given; the kept rows are the one at the start bound and the one
\* at the end bound, two rows of the file are dropped
C9_Witness ==
    /\ v_pc = "derive"
    /\ args.start.kind = "stamp" /\ args.end.kind = "stamp"
    /\ Len(file.rows) = 4
    /\ Len(df) = 2
    /\ df[1].timestamp = Strptime(args.start.stamp)
    /\ df[2].timestamp = Strptime(args.end.stamp)
    /\ \E j \in 1..Len(file.rows) : file.rows[j].Name # args.name

\* C11: whenever the file exists, the name leaves at least one row and the
\* well-formed (or absent) time bounds leave at least one row, the run reaches
\* the save step: it ends with the image written, exit code 0, and finite
\* ratio-axis limits with 0 <= y_min <= y_max, however few rows are left after
\* the first row is dropped and the 2 leading rate rows are skipped.
C11_Completes ==
    (/\ v_pc = "exit"
     /\ file.exists
     /\ Len(C_NameRows) > 0
     /\ args.start.kind \in {"none", "stamp"}
     /\ args.end.kind \in {"none", "stamp"}
     /\ Len(C_Expected) > 0) =>
        /\ png_written
        /\ exit_code = 0
        /\ Len(y_limits) = 2
        /\ IsFinite(y_limits[1]) /\ IsFinite(y_limits[2])
        /\ 0 <= y_limits[1].v /\ y_limits[1].v <= y_limits[2].v

====
